---- MODULE Spec2Model ----
(***************************************************************************)
(* Stake history: the bounded, descending-sorted vector of                 *)
(* (epoch, StakeHistoryEntry) pairs (sdk/program/src/stake_history.rs) and *)
(* the readers that fetch one record of its bincode serialization by byte  *)
(* offset (sdk/program/src/sysvar/stake_history.rs).                       *)
(***************************************************************************)
EXTENDS Integers, Sequences, FiniteSets, TLC

(***************************************************************************)
(* Program constants.                                                      *)
(***************************************************************************)
MAX_ENTRIES == 512

EPOCH_AND_ENTRY_SERIALIZED_SIZE == 32

\* std::mem::size_of::<u64>(): the width of the bincode length prefix and
\* of each u64 field.
SIZE_OF_U64 == 8

\* <StakeHistory as Sysvar>::size_of, the hard-coded golden value.
size_of == 16392

(***************************************************************************)
(* Bounds of the model.                                                    *)
(***************************************************************************)
\* Largest epoch ever passed to add or to a reader.
MaxEpoch == 514

\* Number of add calls that may depart from the regular pattern (the next
\* newer or next older epoch with its regular entry).
MaxArbitrary == 1

\* Arbitrary add calls are drawn while the history holds at least
\* MAX_ENTRIES - NearFull pairs.
NearFull == 0

\* Epoch values are u64 in the program.  The model keeps them far below
\* WordMax, the largest value of the model's unsigned word, which is where
\* checked_mul and checked_add report overflow.
WordMax == 1000000

(***************************************************************************)
(* Option<T> and the abnormal outcome of a call.                           *)
(***************************************************************************)
None == [tag |-> "None"]

Some(x) == [tag |-> "Some", val |-> x]

\* A panic (assert!, assert_eq!, panic!, slice index out of range).
Panic == [tag |-> "Panic"]

(***************************************************************************)
(* StakeHistoryEntry.                                                      *)
(***************************************************************************)
StakeHistoryEntry(e, a, d) == [effective |-> e, activating |-> a, deactivating |-> d]

EntryDefault == StakeHistoryEntry(0, 0, 0)

with_deactivating(deactivating) ==
    [EntryDefault EXCEPT !.effective = deactivating, !.deactivating = deactivating]

\* The entry the tests store for an epoch.
unique_entry_for_epoch(epoch) ==
    StakeHistoryEntry(epoch % 5, epoch % 2, epoch % 3)

(***************************************************************************)
(* u64 arithmetic used by the readers.                                     *)
(***************************************************************************)
\* checked_sub that saturates at 0 instead of reporting the underflow.
checked_sub_Saturating(a, b) == IF a >= b THEN Some(a - b) ELSE Some(0)

checked_sub(a, b) == IF a >= b THEN Some(a - b) ELSE None

\* saturating_sub that subtracts one more than asked.
saturating_sub_OneMore(a, b) == IF a >= b + 1 THEN a - b - 1 ELSE 0

saturating_sub(a, b) == IF a >= b THEN a - b ELSE 0

checked_mul(a, b) == IF a * b > WordMax THEN None ELSE Some(a * b)

\* checked_add that returns its first operand.
checked_add_FirstOnly(a, b) == IF a + b > WordMax THEN None ELSE Some(a)

checked_add(a, b) == IF a + b > WordMax THEN None ELSE Some(a + b)

\* Addition that wraps around at the largest word.
saturating_add_Wrapping(a, b) == (a + b) % (WordMax + 1)

saturating_add(a, b) == IF a + b > WordMax THEN WordMax ELSE a + b

\* impl Add for StakeHistoryEntry
StakeHistoryEntry_add(self, rhs) ==
    StakeHistoryEntry(saturating_add(self.effective, rhs.effective),
                      saturating_add(self.activating, rhs.activating),
                      saturating_add(self.deactivating, rhs.deactivating))

(***************************************************************************)
(* StakeHistory(Vec<(Epoch, StakeHistoryEntry)>): a sequence of pairs      *)
(* <<epoch, entry>>.  Vec indices are 0-based; h[i + 1] is element i.      *)
(***************************************************************************)
\* Ord::cmp on u64.
cmp(a, b) == IF a < b THEN "Less" ELSE IF a = b THEN "Equal" ELSE "Greater"

\* slice::binary_search_by with the comparator |probe| epoch.cmp(&probe.0):
\* the loop over [left, right), returning Ok(index) or Err(insertion point).
RECURSIVE binary_search_loop(_, _, _, _)
binary_search_loop(h, epoch, left, right) ==
    IF left < right
    THEN LET mid == left + ((right - left) \div 2)
             c   == cmp(epoch, h[mid + 1][1])
         IN  IF c = "Equal" THEN [ok |-> TRUE, index |-> mid]
             ELSE IF c = "Less"
                  THEN binary_search_loop(h, epoch, mid + 1, right)
                  ELSE binary_search_loop(h, epoch, left, mid)
    ELSE [ok |-> FALSE, index |-> left]

binary_search_by(h, epoch) == binary_search_loop(h, epoch, 0, Len(h))

\* insert that ignores the index and pushes at the back.
insert_AtBack(h, index, element) == Append(h, element)

\* Vec::insert(index, element)
insert(h, index, element) ==
    SubSeq(h, 1, index) \o <<element>> \o SubSeq(h, index + 1, Len(h))

\* truncate that drops the elements at the front.
truncate_DropFront(h, len) ==
    IF Len(h) > len THEN SubSeq(h, Len(h) - len + 1, Len(h)) ELSE h

\* Vec::truncate(len)
truncate(h, len) == IF Len(h) > len THEN SubSeq(h, 1, len) ELSE h

\* get that searches only the newer half of the vector.
get_HalfSearch(h, epoch) ==
    LET r == binary_search_loop(h, epoch, 0, Len(h) \div 2)
    IN  IF r.ok THEN Some(h[r.index + 1][2]) ELSE None

\* StakeHistory::get
get(h, epoch) ==
    LET r == binary_search_by(h, epoch)
    IN  IF r.ok THEN Some(h[r.index + 1][2]) ELSE None

\* add without the final truncate.
add_NoTruncate(h, epoch, entry) ==
    LET r == binary_search_by(h, epoch)
    IN  IF r.ok
        THEN [h EXCEPT ![r.index + 1] = <<epoch, entry>>]
        ELSE insert(h, r.index, <<epoch, entry>>)

\* add that keeps the stored entry when the epoch is already present.
add_KeepOld(h, epoch, entry) ==
    LET r == binary_search_by(h, epoch)
        v == IF r.ok THEN h ELSE insert(h, r.index, <<epoch, entry>>)
    IN  truncate(v, MAX_ENTRIES)

\* add that inserts the pair even when the epoch is already held.
add_InsertAlways(h, epoch, entry) ==
    truncate(insert(h, binary_search_by(h, epoch).index, <<epoch, entry>>), MAX_ENTRIES)

\* add that drops a new epoch when the vector is full, instead of
\* inserting it and truncating the tail.
add_RejectWhenFull(h, epoch, entry) ==
    LET r == binary_search_by(h, epoch)
    IN  IF r.ok THEN [h EXCEPT ![r.index + 1] = <<epoch, entry>>]
        ELSE IF Len(h) >= MAX_ENTRIES THEN h
        ELSE insert(h, r.index, <<epoch, entry>>)

\* StakeHistory::add
add(h, epoch, entry) ==
    LET r == binary_search_by(h, epoch)
        v == IF r.ok
             THEN [h EXCEPT ![r.index + 1] = <<epoch, entry>>]
             ELSE insert(h, r.index, <<epoch, entry>>)
    IN  truncate(v, MAX_ENTRIES)

\* <StakeHistory as StakeHistoryGetEntry>::get_entry
get_entry(h, epoch) ==
    LET r == binary_search_by(h, epoch)
    IN  IF r.ok THEN Some(h[r.index + 1][2]) ELSE None

(***************************************************************************)
(* bincode (fixed-width, little-endian): a Vec is its length as a u64      *)
(* followed by its elements; a (Epoch, StakeHistoryEntry) tuple is four    *)
(* u64 in field order.  Byte positions are 0-based; data[p + 1] is byte p. *)
(***************************************************************************)
\* Byte k (0 = least significant) of the little-endian encoding of v.
RECURSIVE le_byte(_, _)
le_byte(v, k) == IF k = 0 THEN v % 256 ELSE le_byte(v \div 256, k - 1)

\* fields with the entry's first two fields in the wrong order.
fields_Swapped(pair) ==
    <<pair[1], pair[2].activating, pair[2].effective, pair[2].deactivating>>

\* The u64 fields of one element, in serialization order.
fields(pair) ==
    <<pair[1], pair[2].effective, pair[2].activating, pair[2].deactivating>>

\* bincode::serialized_size(&stake_history)
serialized_size(h) == SIZE_OF_U64 + Len(h) * (4 * SIZE_OF_U64)

\* Byte p of bincode::serialize(&stake_history).
serialized_byte(h, p) ==
    IF p < SIZE_OF_U64
    THEN le_byte(Len(h), p)
    ELSE LET q == p - SIZE_OF_U64
             n == 4 * SIZE_OF_U64
         IN  le_byte(fields(h[(q \div n) + 1])[((q % n) \div SIZE_OF_U64) + 1],
                     q % SIZE_OF_U64)

\* bincode::serialize(&stake_history)
serialize(h) == [i \in 1..serialized_size(h) |-> serialized_byte(h, i - 1)]

\* The u64 read from the 8 bytes of buf that start at byte position p.
RECURSIVE u64_from_le(_, _, _)
u64_from_le(buf, p, k) ==
    IF k = 0 THEN 0
    ELSE buf[p + 1] + 256 * u64_from_le(buf, p + 1, k - 1)

\* bincode::deserialize::<(Epoch, StakeHistoryEntry)>(&entry_buf)
deserialize(buf) ==
    IF Cardinality(DOMAIN buf) < 4 * SIZE_OF_U64
    THEN [tag |-> "Err"]
    ELSE [tag |-> "Ok",
          val |-> <<u64_from_le(buf, 0, SIZE_OF_U64),
                    StakeHistoryEntry(u64_from_le(buf, SIZE_OF_U64, SIZE_OF_U64),
                                      u64_from_le(buf, 2 * SIZE_OF_U64, SIZE_OF_U64),
                                      u64_from_le(buf, 3 * SIZE_OF_U64, SIZE_OF_U64))>>]

(***************************************************************************)
(* The raw read: copies length bytes of the sysvar's data, which is the     *)
(* serialization of the host's StakeHistory, starting at offset, into the  *)
(* caller's buffer; fails if the range exceeds the data.                   *)
(***************************************************************************)
get_sysvar(stake_history, offset, length) ==
    IF offset + length > serialized_size(stake_history)
    THEN [tag |-> "Err"]
    ELSE [tag |-> "Ok",
          val |-> [k \in 1..length |-> serialized_byte(stake_history, offset + k - 1)]]

(***************************************************************************)
(* StakeHistorySysvar(Epoch)                                               *)
(***************************************************************************)
\* StakeHistorySysvar::new -> Result<Self, ProgramError>
StakeHistorySysvar_new(current_epoch) ==
    IF current_epoch > 0
    THEN [tag |-> "Ok", val |-> current_epoch]
    ELSE [tag |-> "Err", val |-> "InvalidAccountData"]

\* What a get_entry call yields: its return value (or Panic) and the raw
\* reads it issued, each <<offset, length>>.
Outcome(ret, reads) == [ret |-> ret, reads |-> reads]

\* match_result that returns the decoded entry without comparing epochs.
StakeHistorySysvar_match_result_NoAssert(target_epoch, result, reads) ==
    IF result.tag = "Ok"
    THEN LET decoded == deserialize(result.val) IN
         IF decoded.tag # "Ok" THEN Outcome(None, reads)
         ELSE Outcome(Some(decoded.val[2]), reads)
    ELSE Outcome(None, reads)

\* match_result that asserts the raw read succeeded, as
\* StakeHistorySyscall's get_entry does.
StakeHistorySysvar_match_result_AssertSuccess(target_epoch, result, reads) ==
    IF result.tag # "Ok" THEN Outcome(Panic, reads)
    ELSE LET decoded == deserialize(result.val) IN
         IF decoded.tag # "Ok" THEN Outcome(None, reads)
         ELSE IF decoded.val[1] # target_epoch THEN Outcome(Panic, reads)
         ELSE Outcome(Some(decoded.val[2]), reads)

\* The match on the result of the raw read that ends get_entry:
\* deserialize, assert_eq!(entry_epoch, target_epoch), Some(entry); any
\* other result is None.
StakeHistorySysvar_match_result(target_epoch, result, reads) ==
    IF result.tag = "Ok"
    THEN LET decoded == deserialize(result.val) IN
         IF decoded.tag # "Ok" THEN Outcome(None, reads)
         ELSE IF decoded.val[1] # target_epoch THEN Outcome(Panic, reads)
         ELSE Outcome(Some(decoded.val[2]), reads)
    ELSE Outcome(None, reads)

\* get_entry with the oldest historical epoch counted back from the newest
\* historical epoch instead of from current_epoch.
StakeHistorySysvar_get_entry_OldestFromNewest(current_epoch, target_epoch, stake_history) ==
    LET newest_historical_epoch == checked_sub(current_epoch, 1)
        oldest_historical_epoch ==
            IF newest_historical_epoch = None THEN 0
            ELSE saturating_sub(newest_historical_epoch.val, MAX_ENTRIES)
    IN
    IF newest_historical_epoch = None THEN Outcome(None, <<>>)
    ELSE IF target_epoch = 0 THEN Outcome(None, <<>>)
    ELSE IF target_epoch < oldest_historical_epoch THEN Outcome(None, <<>>)
    ELSE
    LET epoch_delta == checked_sub(newest_historical_epoch.val, target_epoch) IN
    IF epoch_delta = None THEN Outcome(None, <<>>)
    ELSE
    LET product == checked_mul(epoch_delta.val, EPOCH_AND_ENTRY_SERIALIZED_SIZE) IN
    IF product = None THEN Outcome(None, <<>>)
    ELSE
    LET offset == checked_add(product.val, SIZE_OF_U64) IN
    IF offset = None THEN Outcome(None, <<>>)
    ELSE
    StakeHistorySysvar_match_result(
        target_epoch,
        get_sysvar(stake_history, offset.val, EPOCH_AND_ENTRY_SERIALIZED_SIZE),
        << <<offset.val, EPOCH_AND_ENTRY_SERIALIZED_SIZE>> >>)

\* <StakeHistorySysvar as StakeHistoryGetEntry>::get_entry, on a reader
\* holding current_epoch, with the raw read served from stake_history.
StakeHistorySysvar_get_entry(current_epoch, target_epoch, stake_history) ==
    LET newest_historical_epoch == checked_sub(current_epoch, 1)
        oldest_historical_epoch == saturating_sub(current_epoch, MAX_ENTRIES)
    IN
    IF newest_historical_epoch = None THEN Outcome(None, <<>>)
    ELSE IF target_epoch = 0 THEN Outcome(None, <<>>)
    ELSE IF target_epoch < oldest_historical_epoch THEN Outcome(None, <<>>)
    ELSE
    LET epoch_delta == checked_sub(newest_historical_epoch.val, target_epoch) IN
    IF epoch_delta = None THEN Outcome(None, <<>>)
    ELSE
    LET product == checked_mul(epoch_delta.val, EPOCH_AND_ENTRY_SERIALIZED_SIZE) IN
    IF product = None THEN Outcome(None, <<>>)
    ELSE
    LET offset == checked_add(product.val, SIZE_OF_U64) IN
    IF offset = None THEN Outcome(None, <<>>)
    ELSE
    StakeHistorySysvar_match_result(
        target_epoch,
        get_sysvar(stake_history, offset.val, EPOCH_AND_ENTRY_SERIALIZED_SIZE),
        << <<offset.val, EPOCH_AND_ENTRY_SERIALIZED_SIZE>> >>)

(***************************************************************************)
(* StakeHistorySyscall(Epoch)                                              *)
(***************************************************************************)
\* StakeHistorySyscall::new
StakeHistorySyscall_new(current_epoch) == current_epoch

\* #[derive(Default)]: the Epoch inside is u64's default.
StakeHistorySyscall_default == 0

\* <StakeHistorySyscall as StakeHistoryGetEntry>::get_entry.  With
\* current_epoch = 0 the subtraction current_epoch - 1 panics in a build
\* with overflow checks and wraps to the largest word without them.
StakeHistorySyscall_get_entry(current_epoch, target_epoch, stake_history, overflow_checks) ==
    IF current_epoch = 0 /\ overflow_checks THEN Outcome(Panic, <<>>)
    ELSE
    LET newest_historical_epoch ==
            IF current_epoch = 0 THEN WordMax ELSE current_epoch - 1
        oldest_historical_epoch ==
            saturating_sub(newest_historical_epoch, MAX_ENTRIES)
        delta == checked_sub(newest_historical_epoch, target_epoch)
    IN
    \* None => panic!("target epoch is in the future");
    \* Some(d) => assert!(target_epoch > newest_historical_epoch)
    IF delta = None THEN Outcome(Panic, <<>>)
    ELSE IF ~(target_epoch > newest_historical_epoch) THEN Outcome(Panic, <<>>)
    ELSE IF target_epoch = 0 THEN Outcome(Panic, <<>>)
    ELSE IF target_epoch < oldest_historical_epoch THEN Outcome(None, <<>>)
    ELSE
    LET offset == delta.val * 32 + 8
        reads  == << <<offset, 32>> >>
        result == get_sysvar(stake_history, offset, 32)
    IN
    IF result.tag # "Ok" THEN Outcome(Panic, reads)
    ELSE LET decoded == deserialize(result.val) IN
         IF decoded.tag # "Ok" THEN Outcome(Panic, reads)
         ELSE IF decoded.val[1] # target_epoch THEN Outcome(Panic, reads)
         ELSE Outcome(Some(decoded.val[2]), reads)

(***************************************************************************)
(* State.                                                                  *)
(***************************************************************************)
VARIABLES
    history,    \* the StakeHistory
    sysvar,     \* the Result of StakeHistorySysvar::new, once called
    syscall,    \* the StakeHistorySyscall, once constructed
    call,       \* the most recent reader or lookup call and what it yielded
    added,      \* history variable: epoch |-> entry of the last add call for it
    overwritten, \* history variable: the add calls <<epoch, entry>> followed by
                \* an add call for the same epoch with another entry
    arbitrary   \* history variable: number of arbitrary add calls so far

vars == <<history, sysvar, syscall, call, added, overwritten, arbitrary>>

NoValue == [tag |-> "NoValue"]

NoCall == [op |-> "none"]

Call(op, epoch, outcome) ==
    [op |-> op, epoch |-> epoch, ret |-> outcome.ret, reads |-> outcome.reads]

Epochs == 0..MaxEpoch

newest(h) == h[1][1]

oldest(h) == h[Len(h)][1]

\* The epochs the next add call is drawn from.
RegularEpochs(h) ==
    IF h = <<>> THEN {0, MaxEpoch}
    ELSE {newest(h) + 1, oldest(h) - 1} \cap Epochs

ArbitraryEpochs(h) ==
    IF h = <<>> THEN {}
    ELSE {0, oldest(h), newest(h), newest(h) - 1, newest(h) + 2} \cap Epochs

ArbitraryAllowed(h) ==
    /\ arbitrary < MaxArbitrary
    /\ Len(h) >= MAX_ENTRIES - NearFull

\* The current epochs a reader is constructed with.
CurrentEpochs(h) ==
    IF h = <<>> THEN {0, 1, WordMax}
    ELSE {0, newest(h) + 1, newest(h) + 2}
         \cup (IF Len(h) = MAX_ENTRIES /\ arbitrary = 0 THEN {WordMax} ELSE {})

\* The current epochs a StakeHistorySyscall is constructed with.
SyscallEpochs(h) ==
    IF h = <<>> THEN {0, 1} ELSE {0, newest(h) + 1}

\* The epochs looked up in the history.
LookupEpochs(h) ==
    IF h = <<>> THEN {0} ELSE {0, oldest(h), newest(h) + 1}

\* The target epochs asked of a reader holding current_epoch.
TargetEpochs(h, current_epoch) ==
    ({0, 1, current_epoch - 1, current_epoch,
      saturating_sub(current_epoch, MAX_ENTRIES) - 1,
      saturating_sub(current_epoch, MAX_ENTRIES)}
     \cup (IF h = <<>> THEN {} ELSE {oldest(h)})) \cap Nat

Init ==
    /\ history = <<>>
    /\ sysvar = NoValue
    /\ syscall = NoValue
    /\ call = NoCall
    /\ added = <<>>
    /\ overwritten = {}
    /\ arbitrary = 0

Record(epoch, entry) ==
    [e \in (DOMAIN added) \cup {epoch} |-> IF e = epoch THEN entry ELSE added[e]]

Replaced(epoch, entry) ==
    IF epoch \in DOMAIN added /\ added[epoch] # entry
    THEN overwritten \cup {<<epoch, added[epoch]>>}
    ELSE overwritten

\* The history is updated at epoch boundaries, before the readers of the
\* epoch run.
Add ==
    /\ sysvar = NoValue /\ syscall = NoValue /\ call = NoCall
    /\ \E epoch \in Epochs :
        \E entry \in {unique_entry_for_epoch(epoch), with_deactivating(1000 + epoch)} :
          LET regular == /\ epoch \in RegularEpochs(history)
                         /\ entry = unique_entry_for_epoch(epoch)
          IN  /\ \/ regular
                 \/ /\ ArbitraryAllowed(history)
                    /\ epoch \in ArbitraryEpochs(history) \cup RegularEpochs(history)
              /\ history' = add(history, epoch, entry)
              /\ added' = Record(epoch, entry)
              /\ overwritten' = Replaced(epoch, entry)
              /\ arbitrary' = IF regular THEN arbitrary ELSE arbitrary + 1
    /\ UNCHANGED <<sysvar, syscall, call>>

Get ==
    /\ sysvar = NoValue /\ syscall = NoValue /\ call = NoCall
    /\ \E epoch \in LookupEpochs(history) :
         call' = Call("StakeHistory::get", epoch, Outcome(get(history, epoch), <<>>))
    /\ UNCHANGED <<history, sysvar, syscall, added, overwritten, arbitrary>>

GetEntry ==
    /\ sysvar = NoValue /\ syscall = NoValue /\ call = NoCall
    /\ \E epoch \in LookupEpochs(history) :
         call' = Call("StakeHistory::get_entry", epoch,
                      Outcome(get_entry(history, epoch), <<>>))
    /\ UNCHANGED <<history, sysvar, syscall, added, overwritten, arbitrary>>

SysvarNew ==
    /\ sysvar = NoValue /\ syscall = NoValue /\ call = NoCall
    /\ \E current_epoch \in CurrentEpochs(history) :
         /\ sysvar' = StakeHistorySysvar_new(current_epoch)
         /\ call' = Call("StakeHistorySysvar::new", current_epoch, Outcome(None, <<>>))
    /\ UNCHANGED <<history, syscall, added, overwritten, arbitrary>>

SysvarGetEntry ==
    /\ sysvar.tag = "Ok"
    /\ call.op = "StakeHistorySysvar::new"
    /\ \E target_epoch \in TargetEpochs(history, sysvar.val) :
         call' = Call("StakeHistorySysvar::get_entry", target_epoch,
                      StakeHistorySysvar_get_entry(sysvar.val, target_epoch, history))
    /\ UNCHANGED <<history, sysvar, syscall, added, overwritten, arbitrary>>

SyscallNew ==
    /\ sysvar = NoValue /\ syscall = NoValue /\ call = NoCall
    /\ \E current_epoch \in SyscallEpochs(history) :
         /\ syscall' = [tag |-> "StakeHistorySyscall",
                        val |-> StakeHistorySyscall_new(current_epoch)]
         /\ call' = Call("StakeHistorySyscall::new", current_epoch, Outcome(None, <<>>))
    /\ UNCHANGED <<history, sysvar, added, overwritten, arbitrary>>

SyscallDefault ==
    /\ sysvar = NoValue /\ syscall = NoValue /\ call = NoCall
    /\ syscall' = [tag |-> "StakeHistorySyscall", val |-> StakeHistorySyscall_default]
    /\ call' = [op |-> "StakeHistorySyscall::default"]
    /\ UNCHANGED <<history, sysvar, added, overwritten, arbitrary>>

SyscallGetEntry ==
    /\ syscall.tag = "StakeHistorySyscall"
    /\ call.op \in {"StakeHistorySyscall::new", "StakeHistorySyscall::default"}
    /\ \E target_epoch \in {0, syscall.val - 1, syscall.val} \cap Nat :
        \E overflow_checks \in BOOLEAN :
         call' = Call("StakeHistorySyscall::get_entry", target_epoch,
                      StakeHistorySyscall_get_entry(syscall.val, target_epoch,
                                                    history, overflow_checks))
    /\ UNCHANGED <<history, sysvar, syscall, added, overwritten, arbitrary>>

Next ==
    \/ Add
    \/ Get
    \/ GetEntry
    \/ SysvarNew
    \/ SysvarGetEntry
    \/ SyscallNew
    \/ SyscallDefault
    \/ SyscallGetEntry

Spec == Init /\ [][Next]_vars

(***************************************************************************)
(* Addition of StakeHistoryEntry values: three operands are drawn, with    *)
(* fields at both ends of the word, and the sums of the monoid laws are    *)
(* computed.                                                               *)
(***************************************************************************)
EntryValues ==
    {StakeHistoryEntry(e, a, d) : e \in {0, 1, WordMax - 1, WordMax},
                                  a \in {0, WordMax},
                                  d \in {1, WordMax - 1}}

InitEntry ==
    /\ history = <<>>
    /\ sysvar = NoValue
    /\ syscall = NoValue
    /\ added = <<>>
    /\ overwritten = {}
    /\ arbitrary = 0
    /\ \E a \in EntryValues, b \in EntryValues, c \in EntryValues :
         call = [op |-> "operands", a |-> a, b |-> b, c |-> c]

EntryAdd ==
    /\ call.op = "operands"
    /\ call' = [op |-> "StakeHistoryEntry::add",
                a |-> call.a, b |-> call.b, c |-> call.c,
                a_b |-> StakeHistoryEntry_add(call.a, call.b),
                b_a |-> StakeHistoryEntry_add(call.b, call.a),
                ab_c |-> StakeHistoryEntry_add(StakeHistoryEntry_add(call.a, call.b), call.c),
                a_bc |-> StakeHistoryEntry_add(call.a, StakeHistoryEntry_add(call.b, call.c)),
                a_zero |-> StakeHistoryEntry_add(call.a, EntryDefault),
                zero_a |-> StakeHistoryEntry_add(EntryDefault, call.a)]
    /\ UNCHANGED <<history, sysvar, syscall, added, overwritten, arbitrary>>

NextEntry == EntryAdd

SpecEntry == InitEntry /\ [][NextEntry]_vars

(***************************************************************************)
(* Properties of StakeHistory.                                             *)
(***************************************************************************)
EpochsOf(h) == {h[i][1] : i \in 1..Len(h)}

Min(a, b) == IF a <= b THEN a ELSE b

\* C1: after any sequence of add calls, in any order, the number of stored
\* pairs is at most MAX_ENTRIES.
C1_LenBounded == Len(history) <= MAX_ENTRIES

\* More than MAX_ENTRIES distinct epochs were added and the history is full.
C1_Witness ==
    /\ Cardinality(DOMAIN added) > MAX_ENTRIES
    /\ Len(history) = MAX_ENTRIES

\* C2: the stored epochs strictly decrease as the index increases:
\* epoch[i] > epoch[j] for all i < j, so no epoch appears twice.  All pairs
\* are compared in the states add produces; lookups and readers leave the
\* history unchanged, and there the neighbours are compared.
C2_StrictlyDescending ==
    /\ \A i \in 1..(Len(history) - 1) : history[i][1] > history[i + 1][1]
    /\ call = NoCall =>
          \A j \in 1..Len(history) : \A i \in 1..(j - 1) :
              history[i][1] > history[j][1]

\* A full history that has taken an add call out of the regular order.
C2_Witness ==
    /\ arbitrary >= 1
    /\ Len(history) = MAX_ENTRIES
    /\ call = NoCall

\* C3: the content is exactly the min(D, MAX_ENTRIES) largest of the D
\* distinct epochs ever added, each with the entry of its last add call;
\* adding 0..=MAX_ENTRIES in ascending order leaves MAX_ENTRIES pairs, the
\* smallest epoch 1, get(0) = None and get(1) = the entry added for 1.
C3_LargestEpochsLastEntries ==
    call = NoCall =>
      LET retained == EpochsOf(history)
          everAdded == DOMAIN added
      IN  /\ retained \subseteq everAdded
          /\ Cardinality(retained) = Min(Cardinality(everAdded), MAX_ENTRIES)
          /\ Len(history) = Cardinality(retained)
          /\ \A e \in everAdded \ retained : \A r \in retained : e < r
          /\ \A i \in 1..Len(history) : history[i][2] = added[history[i][1]]
          /\ (everAdded = 0..MAX_ENTRIES /\ arbitrary = 0) =>
                /\ Len(history) = MAX_ENTRIES
                /\ oldest(history) = 1
                /\ get(history, 0) = None
                /\ get(history, 1) = Some(added[1])

\* Epochs 0..=MAX_ENTRIES were added in ascending order.
C3_Witness ==
    /\ DOMAIN added = 0..MAX_ENTRIES
    /\ arbitrary = 0
    /\ Len(history) = MAX_ENTRIES
    /\ oldest(history) = 1
    /\ get(history, 1) = Some(unique_entry_for_epoch(1))

\* C4: get(e) is Some(x) exactly when the pair (e, x) is stored, None
\* otherwise, and get_entry(e) returns the same.
C4_GetIffStored ==
    call = NoCall =>
      LET retained == EpochsOf(history)
      IN  /\ \A i \in 1..Len(history) :
                get(history, history[i][1]) = Some(history[i][2])
          /\ \A e \in 0..(MaxEpoch + 1) :
                /\ e \notin retained => get(history, e) = None
                /\ get_entry(history, e) = get(history, e)

\* A lookup of a stored epoch and a lookup of an absent one.
C4_Witness ==
    /\ call # NoCall
    /\ call.op = "StakeHistory::get"
    /\ Len(history) = MAX_ENTRIES
    /\ call.ret = Some(history[MAX_ENTRIES][2])
    /\ get(history, newest(history) + 1) = None

(***************************************************************************)
(* Properties of the readers.                                              *)
(***************************************************************************)
IsSysvarGetEntry ==
    /\ call # NoCall
    /\ call.op = "StakeHistorySysvar::get_entry"

\* The history was built by add of every epoch 0..c-1 and c is the current
\* epoch: the newest recorded epoch is c - 1.
BuiltUpTo(c) ==
    /\ c >= 1
    /\ history # <<>>
    /\ newest(history) = c - 1
    /\ DOMAIN added = 0..(c - 1)

\* C5: with the history built by add of every epoch 0..c-1, for every
\* target epoch t, StakeHistorySysvar::new(c).get_entry(t) equals
\* history.get_entry(t) and history.get(t).
C5_PathsNeverDiverge ==
    (IsSysvarGetEntry /\ BuiltUpTo(sysvar.val)) =>
        /\ call.ret = get_entry(history, call.epoch)
        /\ call.ret = get(history, call.epoch)

\* No epoch between the smallest and the largest retained epoch is missing.
Contiguous(h) == h # <<>> => Len(h) = newest(h) - oldest(h) + 1

\* The record found in the serialized history at byte offset
\* 8 + (current_epoch - 1 - e) * 32, decoded.
RecordAt(h, current_epoch, e) ==
    LET offset == SIZE_OF_U64 + (current_epoch - 1 - e) * EPOCH_AND_ENTRY_SERIALIZED_SIZE
        result == get_sysvar(h, offset, EPOCH_AND_ENTRY_SERIALIZED_SIZE)
    IN  IF result.tag = "Ok" THEN deserialize(result.val) ELSE result

RoundTrip(h) ==
    \A i \in 1..Len(h) :
        LET e == h[i][1]
            r == RecordAt(h, newest(h) + 1, e)
        IN  /\ r.tag = "Ok"
            /\ r.val[1] = e
            /\ Some(r.val[2]) = get(h, e)

\* C6 as stated: round trip for any history reachable by add calls and any
\* retained epoch e, with current_epoch = largest retained epoch + 1.
C6_RoundTripAnyHistory == call = NoCall => RoundTrip(history)

\* C6, amended: the round trip holds when the retained epochs are
\* contiguous.
C6_RoundTripContiguous ==
    (call = NoCall /\ Contiguous(history)) => RoundTrip(history)

\* A full contiguous history that has evicted epochs and holds an entry
\* written by an arbitrary add call.
C6_Witness ==
    /\ call = NoCall
    /\ Contiguous(history)
    /\ Len(history) = MAX_ENTRIES
    /\ oldest(history) >= 2
    /\ \E i \in {1, MAX_ENTRIES} :
           history[i][2] = with_deactivating(1000 + history[i][1])

\* The record a get_entry call read, decoded; the call issued one read.
RecordRead ==
    LET result == get_sysvar(history, call.reads[1][1], call.reads[1][2])
    IN  IF result.tag = "Ok" THEN deserialize(result.val) ELSE result

\* C7: StakeHistorySysvar::get_entry(t) returns Some(entry) only if the
\* record it read decodes to (t, entry); when a successful read decodes to
\* another epoch the call aborts.
C7_NeverWrongValue ==
    IsSysvarGetEntry =>
        /\ call.ret.tag = "Some" =>
              /\ Len(call.reads) = 1
              /\ RecordRead = [tag |-> "Ok", val |-> <<call.epoch, call.ret.val>>]
        /\ (Len(call.reads) = 1 /\ RecordRead.tag = "Ok"
              /\ RecordRead.val[1] # call.epoch) => call.ret = Panic

\* A read of a full history that skipped an epoch decoded to another epoch
\* than the target, and the call aborted.
C7_Witness ==
    /\ IsSysvarGetEntry
    /\ Len(history) = MAX_ENTRIES
    /\ sysvar.val = newest(history) + 1
    /\ ~Contiguous(history)
    /\ Len(call.reads) = 1
    /\ RecordRead.tag = "Ok"
    /\ RecordRead.val[1] # call.epoch
    /\ call.ret = Panic

\* Targets at and after the current epoch.
FutureEpochs(c) == c..(c + 2)

C9_NoReaderAtEpochZero ==
    /\ sysvar.tag = "Ok" => sysvar.val > 0
    /\ (call # NoCall /\ call.op = "StakeHistorySysvar::new") =>
          IF call.epoch = 0 THEN sysvar.tag = "Err"
          ELSE sysvar = [tag |-> "Ok", val |-> call.epoch]
    /\ syscall.tag = "StakeHistorySyscall" => syscall.val > 0

\* C10: StakeHistorySysvar::new(c).get_entry(t) returns None, without
\* aborting and without a raw read, when t = 0 or t is below the reader's
\* oldest historical epoch (t + MAX_ENTRIES < c).
Absent(c, t) == t = 0 \/ t + MAX_ENTRIES < c

C10_RecoverableAbsence ==
    /\ (IsSysvarGetEntry /\ Absent(sysvar.val, call.epoch)) =>
          /\ call.ret = None
          /\ call.reads = <<>>
    /\ (call # NoCall /\ call.op = "StakeHistorySysvar::new" /\ sysvar.tag = "Ok") =>
          \A t \in 0..(MaxEpoch + 2) :
              Absent(sysvar.val, t) =>
                  StakeHistorySysvar_get_entry(sysvar.val, t, history) = Outcome(None, <<>>)

\* current_epoch 514 over the retained epochs 2..=513: get_entry(1) is None
\* and so is get_entry(0).
C10_Witness ==
    /\ IsSysvarGetEntry
    /\ sysvar.val = MAX_ENTRIES + 2
    /\ EpochsOf(history) = 2..(MAX_ENTRIES + 1)
    /\ call.epoch = 1
    /\ call.ret = None
    /\ call.reads = <<>>
    /\ StakeHistorySysvar_get_entry(sysvar.val, 0, history) = Outcome(None, <<>>)

\* The result of the raw read a get_entry call issued.
ReadResult == get_sysvar(history, call.reads[1][1], call.reads[1][2])

\* C11: whenever the raw read reports a non-success result, such as a range
\* that exceeds the serialized history, StakeHistorySysvar::get_entry
\* returns None; it does not abort and issues no second read.
C11_ReadFailureIsNone ==
    IsSysvarGetEntry =>
        /\ Len(call.reads) <= 1
        /\ (Len(call.reads) = 1 /\ ReadResult.tag # "Ok") => call.ret = None
        /\ StakeHistorySysvar_match_result(call.epoch, [tag |-> "Err"], call.reads)
              = Outcome(None, call.reads)

\* A read past the end of a history shorter than the retention window.
C11_Witness ==
    /\ IsSysvarGetEntry
    /\ Len(history) < MAX_ENTRIES
    /\ Len(call.reads) = 1
    /\ call.reads[1][1] + call.reads[1][2] > serialized_size(history)
    /\ ReadResult.tag = "Err"
    /\ call.ret = None

\* The entries the add calls carry for an epoch.
EntriesOf(epoch) == {unique_entry_for_epoch(epoch), with_deactivating(1000 + epoch)}

\* Epochs around both ends of the history: held, absent, and below the
\* smallest held epoch.
ProbeEpochs(h) ==
    ({0, MaxEpoch + 1}
     \cup (IF h = <<>> THEN {}
           ELSE {oldest(h) - 1, oldest(h), oldest(h) + 1,
                 newest(h) - 1, newest(h), newest(h) + 1, newest(h) + 2})) \cap Nat

(***************************************************************************)
(* Orders of the add calls made so far.  The collection of calls is the    *)
(* last call for every epoch (added) and the calls that a later call for   *)
(* the same epoch replaced (overwritten).                                  *)
(***************************************************************************)
\* The entries of the replaced calls for an epoch, in some order.
RECURSIVE ReplacedEntries(_)
ReplacedEntries(pairs) ==
    IF pairs = {} THEN <<>>
    ELSE LET p == CHOOSE q \in pairs : TRUE
         IN  <<p[2]>> \o ReplacedEntries(pairs \ {p})

\* The entries of the calls for epoch e, the last call last (lastKept) or
\* the last call first.
EntriesFor(e, lastKept) ==
    LET replaced == ReplacedEntries({p \in overwritten : p[1] = e})
    IN  IF lastKept THEN replaced \o <<added[e]>> ELSE <<added[e]>> \o replaced

RECURSIVE AddAll(_, _, _)
AddAll(h, epoch, entries) ==
    IF entries = <<>> THEN h
    ELSE AddAll(add(h, epoch, Head(entries)), epoch, Tail(entries))

AddEpoch(h, e, lastKept) ==
    IF e \in DOMAIN added THEN AddAll(h, e, EntriesFor(e, lastKept)) ELSE h

\* The history after applying to h all the calls for the epochs lo..hi, the
\* epochs in ascending order (h holds at most MAX_ENTRIES pairs).
RECURSIVE ReplayAscending(_, _, _, _)
ReplayAscending(h, lo, hi, lastKept) ==
    IF lo > hi \/ Len(h) > MAX_ENTRIES THEN h
    ELSE IF lo = hi THEN AddEpoch(h, lo, lastKept)
    ELSE LET mid == (lo + hi) \div 2
             lower == ReplayAscending(h, lo, mid, lastKept)
         IN  ReplayAscending(lower, mid + 1, hi, lastKept)

\* The same, the epochs in descending order.
RECURSIVE ReplayDescending(_, _, _, _)
ReplayDescending(h, lo, hi, lastKept) ==
    IF lo > hi \/ Len(h) > MAX_ENTRIES THEN h
    ELSE IF lo = hi THEN AddEpoch(h, lo, lastKept)
    ELSE LET mid == (lo + hi) \div 2
             upper == ReplayDescending(h, mid + 1, hi, lastKept)
         IN  ReplayDescending(upper, lo, mid, lastKept)

\* Two histories that hold the same pairs at the same positions give the
\* same get(e) for every e; get is compared at both ends of the histories.
SameGet(h1, h2) ==
    /\ h1 = h2
    /\ \A e \in ProbeEpochs(h1) \cup ProbeEpochs(h2) : get(h1, e) = get(h2, e)

\* C12 as stated: any two orders of applying all the add calls give the
\* same get(e) for every e.  The orders compared are the order the calls
\* were made in and the ascending and descending orders, with the calls for
\* one epoch in either order.
C12_AnyOrderSameGet ==
    call = NoCall =>
        \A lastKept \in BOOLEAN :
            /\ SameGet(history, ReplayAscending(<<>>, 0, MaxEpoch + 1, lastKept))
            /\ SameGet(history, ReplayDescending(<<>>, 0, MaxEpoch + 1, lastKept))

\* C12, amended: any two orders of applying all the add calls that agree,
\* for every epoch, on which call for that epoch comes last give the same
\* get(e) for every e.
C12_SameLastCallSameGet ==
    call = NoCall =>
        /\ SameGet(history, ReplayAscending(<<>>, 0, MaxEpoch + 1, TRUE))
        /\ SameGet(history, ReplayDescending(<<>>, 0, MaxEpoch + 1, TRUE))

\* More than MAX_ENTRIES distinct epochs were added, some out of order and
\* one of them twice with different entries.
C12_Witness ==
    /\ call = NoCall
    /\ Cardinality(DOMAIN added) > MAX_ENTRIES
    /\ arbitrary >= 1
    /\ overwritten # {}
    /\ \E p \in overwritten : get(history, p[1]) = Some(added[p[1]])

\* C13: idempotence of add.  In every reachable history, for every epoch e
\* and entry x, add(e, x) applied twice gives the same stored sequence as
\* add(e, x) applied once.
C13_AddIdempotent ==
    call = NoCall =>
        \A e \in ProbeEpochs(history) : \A x \in EntriesOf(e) :
            add(add(history, e, x), e, x) = add(history, e, x)

\* A full history where one add is evicted at once, one inserts an absent
\* epoch and one replaces the entry of a held epoch.
C13_Witness ==
    /\ call = NoCall
    /\ Len(history) = MAX_ENTRIES
    /\ oldest(history) > 0
    /\ \E x \in EntriesOf(oldest(history) - 1) :
         /\ add(history, oldest(history) - 1, x) = history
         /\ add(add(history, oldest(history) - 1, x), oldest(history) - 1, x) = history
    /\ \E e \in ProbeEpochs(history) : \E x \in EntriesOf(e) :
         /\ get(history, e) = None
         /\ get(add(history, e, x), e) = Some(x)
         /\ add(add(history, e, x), e, x) = add(history, e, x)
    /\ \E x \in EntriesOf(newest(history)) :
         /\ get(history, newest(history)) \notin {None, Some(x)}
         /\ add(add(history, newest(history), x), newest(history), x)
               = add(history, newest(history), x)

\* The sum of two fields, held at the largest word.
Saturated(x, y) == IF x + y >= WordMax THEN WordMax ELSE x + y

\* C14: StakeHistoryEntry addition is commutative and associative with the
\* all-zero entry as identity, and every field of a sum is the sum of the
\* operands' fields held at the largest word value.
C14_EntryAddMonoid ==
    call.op = "StakeHistoryEntry::add" =>
        /\ call.a_b = call.b_a
        /\ call.ab_c = call.a_bc
        /\ call.a_zero = call.a
        /\ call.zero_a = call.a
        /\ call.a_b = StakeHistoryEntry(
               Saturated(call.a.effective, call.b.effective),
               Saturated(call.a.activating, call.b.activating),
               Saturated(call.a.deactivating, call.b.deactivating))

\* A sum where one field saturates only with the third operand and another
\* field saturates with the first two.
C14_Witness ==
    /\ call.op = "StakeHistoryEntry::add"
    /\ call.a.effective + call.b.effective < WordMax
    /\ call.a.effective + call.b.effective + call.c.effective > WordMax
    /\ call.ab_c.effective = WordMax
    /\ call.a.activating + call.b.activating > WordMax
    /\ call.a_b.activating = WordMax
    /\ call.a_b.deactivating = call.a.deactivating + call.b.deactivating

\* The oldest epoch a reader holding current_epoch c answers for.
RetentionBound(c) == IF c > MAX_ENTRIES THEN c - MAX_ENTRIES ELSE 0

\* A get_entry call on a reader with current_epoch >= 1 for a non-zero
\* target below current_epoch.
IsPastTargetQuery ==
    /\ IsSysvarGetEntry
    /\ sysvar.val >= 1
    /\ call.epoch # 0
    /\ call.epoch < sysvar.val

\* C15 as stated: the retention bound is (current_epoch - 1) saturating-minus
\* MAX_ENTRIES; a non-zero target is answered None without a read exactly
\* when it is below that bound, and every non-zero target from that bound up
\* to current_epoch - 1 proceeds to the offset read.
C15_BoundFromNewest ==
    IsPastTargetQuery =>
        /\ call.reads = <<>> <=> call.epoch < RetentionBound(sysvar.val - 1)
        /\ call.epoch >= RetentionBound(sysvar.val - 1) => Len(call.reads) = 1

\* C15, amended: the retention bound is current_epoch saturating-minus
\* MAX_ENTRIES; a non-zero target is answered None without a read exactly
\* when it is below that bound, and every non-zero target from that bound up
\* to current_epoch - 1 proceeds to the offset read.
C15_BoundFromCurrent ==
    IsPastTargetQuery =>
        /\ call.reads = <<>> <=> call.epoch < RetentionBound(sysvar.val)
        /\ call.epoch < RetentionBound(sysvar.val) => call.ret = None
        /\ call.epoch >= RetentionBound(sysvar.val) => Len(call.reads) = 1

\* The target one below the bound is answered without a read and the target
\* at the bound is read.
C15_Witness ==
    /\ IsPastTargetQuery
    /\ Len(history) = MAX_ENTRIES
    /\ newest(history) = sysvar.val - 1
    /\ sysvar.val >= MAX_ENTRIES + 2
    /\ call.epoch = sysvar.val - MAX_ENTRIES - 1
    /\ call.reads = <<>>
    /\ call.ret = None
    /\ Len(StakeHistorySysvar_get_entry(sysvar.val, call.epoch + 1, history).reads) = 1

\* C16: a get_entry call on a reader with current_epoch c >= 1 issues at
\* most one raw read: exactly one, at offset 8 + (c - 1 - t) * 32 with
\* length 32, when the target t is non-zero, not below the retention bound
\* and below c, and none in every other case.
C16_OneReadAtOffset ==
    (IsSysvarGetEntry /\ sysvar.val >= 1) =>
        LET c == sysvar.val
            t == call.epoch
        IN  IF t # 0 /\ t >= RetentionBound(c) /\ t < c
            THEN call.reads = << <<8 + (c - 1 - t) * 32, 32>> >>
            ELSE call.reads = <<>>

\* The oldest epoch of a full history is read at the last record.
C16_Witness ==
    /\ IsSysvarGetEntry
    /\ Len(history) = MAX_ENTRIES
    /\ sysvar.val = newest(history) + 1
    /\ call.epoch = oldest(history)
    /\ call.epoch = sysvar.val - MAX_ENTRIES
    /\ call.reads = << <<8 + (MAX_ENTRIES - 1) * 32, 32>> >>
    /\ call.ret = get(history, call.epoch)
    /\ call.ret # None

\* C17: when the history holds MAX_ENTRIES pairs, add(e, x) with e smaller
\* than every retained epoch leaves the stored sequence as it was, and
\* get(e) is None afterwards.
C17_SelfEvictingNoOp ==
    (call = NoCall /\ Len(history) = MAX_ENTRIES) =>
        \A e \in 0..(oldest(history) - 1) : \A x \in EntriesOf(e) :
            /\ add(history, e, x) = history
            /\ get(add(history, e, x), e) = None

\* A full history built downwards from MaxEpoch, after an add call for the
\* epoch below its smallest epoch.
C17_Witness ==
    /\ call = NoCall
    /\ Len(history) = MAX_ENTRIES
    /\ arbitrary = 0
    /\ 0 \notin DOMAIN added
    /\ oldest(history) - 1 \in DOMAIN added
    /\ get(history, oldest(history) - 1) = None

IsSyscallGetEntry ==
    /\ call # NoCall
    /\ call.op = "StakeHistorySyscall::get_entry"

\* C18: on a StakeHistorySyscall reader with current_epoch c >= 1, for a
\* target t with 1 <= t <= c - 1 inside the retention window that the
\* history holds at record index c - 1 - t, get_entry(t) performs one read
\* at offset (c - 1 - t) * 32 + 8 and returns Some of the entry stored for t
\* without panicking.
C18_SyscallReadsEntry ==
    LET c == syscall.val
        t == call.epoch
    IN  (/\ IsSyscallGetEntry
         /\ c >= 1
         /\ 1 <= t /\ t <= c - 1
         /\ c - 1 - t < Len(history)
         /\ history[c - t][1] = t) =>
            /\ call.ret # Panic
            /\ call.reads = << <<(c - 1 - t) * 32 + 8, 32>> >>
            /\ call.ret = Some(history[c - t][2])

\* C19: every raw read a StakeHistorySysvar::get_entry call issues has
\* epoch_delta <= MAX_ENTRIES - 1: its offset is 8 + 32 * epoch_delta, its
\* length 32, its range ends within size_of = 8 + 512 * 32 bytes, and the
\* offset computation does not overflow.
C19_ReadsWithinSizeOf ==
    /\ size_of = SIZE_OF_U64 + MAX_ENTRIES * EPOCH_AND_ENTRY_SERIALIZED_SIZE
    /\ IsSysvarGetEntry =>
        \A i \in 1..Len(call.reads) :
            LET epoch_delta == sysvar.val - 1 - call.epoch
                offset == call.reads[i][1]
                length == call.reads[i][2]
            IN  /\ epoch_delta \in 0..(MAX_ENTRIES - 1)
                /\ offset = 8 + 32 * epoch_delta
                /\ length = 32
                /\ offset + length <= size_of
                /\ checked_mul(epoch_delta, 32) # None
                /\ checked_add(32 * epoch_delta, 8) # None
    /\ (IsPastTargetQuery /\ call.epoch >= RetentionBound(sysvar.val)) =>
            call.reads # <<>>

\* A reader holding the largest current epoch over a full history asks for
\* the oldest epoch of its window: the read is at the last record.
C19_Witness ==
    /\ IsSysvarGetEntry
    /\ Len(history) = MAX_ENTRIES
    /\ sysvar.val = WordMax
    /\ call.epoch = WordMax - MAX_ENTRIES
    /\ call.reads = << <<size_of - 32, 32>> >>

\* C20: eviction is permanent.  Once the history holds MAX_ENTRIES pairs, an
\* add call keeps it at MAX_ENTRIES pairs and does not lower its smallest
\* retained epoch; and an epoch that was added and is no longer retained is
\* not retained after any later add call, a call for that epoch included.
C20_EvictionPermanent ==
    [][ history' # history =>
          /\ Len(history) = MAX_ENTRIES =>
                /\ Len(history') = MAX_ENTRIES
                /\ oldest(history') >= oldest(history)
          /\ \A e \in DOMAIN added :
                get(history, e) = None => get(history', e) = None ]_vars

\* Epoch 0 was passed to add twice, with different entries, and is below
\* the smallest epoch of the full history.
C20_Witness ==
    /\ call = NoCall
    /\ Len(history) = MAX_ENTRIES
    /\ oldest(history) >= 2
    /\ 0 \in DOMAIN added
    /\ \E p \in overwritten : p[1] = 0
    /\ get(history, 0) = None
    /\ get(history, oldest(history) - 1) = None
    /\ oldest(history) - 1 \in DOMAIN added
====
